---- MODULE Spec2Model ----
(***************************************************************************)
(* Model of adafruit_esp32spi_socket.py: the address resolver getaddrinfo  *)
(* and one `socket` object over the ESP32 SPI transport (_the_interface).  *)
(*                                                                         *)
(* The transport is an external collaborator: every poll may report any    *)
(* count and every read may return any bytes (at least one, at most the    *)
(* number requested).  The clock is time.monotonic(); the model keeps the  *)
(* difference  time.monotonic() - stamp  in `elapsed`, saturated at        *)
(* MaxElapsed, which is above every threshold the code compares it with.   *)
(***************************************************************************)
EXTENDS Integers, Sequences, FiniteSets, TLC

\* ------------------------------------------------------------ constants
SOCK_STREAM == 1
AF_INET == 2
MAX_PACKET == 4000
\* read_timeout = 8 in socket.read
READ_TIMEOUT == 8
\* _the_interface.TCP_MODE, the default conn_mode
TCP_MODE == 0

\* ------------------------------------------------------------ bounds
\* bytes the transport has delivered that the caller has not consumed yet
MaxUnread == 3
\* longest chunk one transport read returns
MaxChunk == 2
\* largest size passed to read()
MaxSize == 3
\* largest value passed to settimeout()
MaxTimeout == 1
\* saturation point of the elapsed-time counter
MaxElapsed == 9
\* transport close invocations explored on the handle
MaxCloseCalls == 2
\* longest data passed to write()
MaxWrite == 1

\* ------------------------------------------------------------ bytes
\* b'\r', b'\n' and one other byte (b'x')
CR == 13
LF == 10
Byte == {CR, LF, 120}
CRLF == <<CR, LF>>

\* byte strings of length 1..k
Chunks(k) == UNION {[1..m -> Byte] : m \in 1..k}

Min(a, b) == IF a < b THEN a ELSE b

\* b'\r\n' in s
HasCRLF(s) == \E i \in 1..(Len(s) - 1) : s[i] = CR /\ s[i + 1] = LF

\* index of the first b'\r\n' in s (s contains one)
FirstCRLF(s) ==
  CHOOSE i \in 1..(Len(s) - 1) :
    /\ s[i] = CR /\ s[i + 1] = LF
    /\ \A j \in 1..(i - 1) : ~(s[j] = CR /\ s[j + 1] = LF)

\* mutant: the split cuts after the CR only, the LF stays in the buffer
SplitCRLF_KeepLF(s) ==
  <<SubSeq(s, 1, FirstCRLF(s) - 1), SubSeq(s, FirstCRLF(s) + 1, Len(s))>>

\* s.split(b'\r\n', 1) for s containing the delimiter: <<firstline, rest>>
SplitCRLF(s) ==
  <<SubSeq(s, 1, FirstCRLF(s) - 1), SubSeq(s, FirstCRLF(s) + 2, Len(s))>>

\* s[:n] and s[n:] for n >= 0
Take(s, n) == SubSeq(s, 1, Min(n, Len(s)))
Drop(s, n) == SubSeq(s, Min(n, Len(s)) + 1, Len(s))

\* b''.join(chunks)
RECURSIVE Join(_)
Join(chunks) ==
  IF chunks = <<>> THEN <<>> ELSE Head(chunks) \o Join(Tail(chunks))

\* ------------------------------------------------------------ state
VARIABLES
  pc,         \* position of the caller: "none" (no socket yet), "idle", or inside a call
  buffer,     \* self._buffer
  socknum,    \* self._socknum
  timeout,    \* self._timeout
  elapsed,    \* time.monotonic() - stamp (in read(0), which takes no stamp: time since
              \* the call began), saturated at MaxElapsed
  avail,      \* local avail
  to_read,    \* local to_read of read(size)
  received,   \* local received of read(size): list of chunks
  op,         \* the call in progress or last made
  args,       \* its arguments
  result,     \* "pending", "return" or "raise"
  err,        \* message of the RuntimeError raised
  ret,        \* bytes returned by read / readline
  gai,        \* list returned by getaddrinfo
  entryBuf,   \* self._buffer when the call began
  got,        \* bytes the transport read primitive returned during the call
  requested,  \* read(size): sum of the sizes asked of socket_read during the call
  recvAt,     \* read(size): what time.monotonic() - stamp was when the last chunk of the
              \* call came back from socket_read (0 if none has yet), saturated at 1:
              \* the chunk came back at once (0) or some time after the stamp (1)
  lateZero,   \* readline: the last poll reported zero more than self._timeout > 0 after the call began
  twin,       \* read: the same call on the same transport and clock, made by a socket that
              \* differs only in self._timeout (fields named as the variables)
  tcalls,     \* transport primitive called outside loops -> invocations during the call
  lastT,      \* the most recent transport invocation of the call
  closeCalls, \* socket_close invocations on this socket's handle so far
  unread,     \* the bytes socket_read returned since construction / the last successful
              \* connect, less those returned to the caller since (a line counts with its CRLF)
  intact      \* every read / readline so far returned the oldest unread bytes, in order

vars == <<pc, buffer, socknum, timeout, elapsed, avail, to_read, received, op, args,
          result, err, ret, gai, entryBuf, got, requested, recvAt, lateZero, twin,
          tcalls, lastT, closeCalls, unread, intact>>

locals == <<avail, to_read, received>>
sockv == <<buffer, socknum, timeout>>
hist == <<unread, intact>>

\* the transport primitives called outside loops; socket_available and socket_read,
\* called in loops, are followed through lastT, got and requested
Counted == {"get_socket", "get_host_by_name", "socket_connect", "socket_write",
            "socket_close"}

NoSock == 0 - 1
\* Python's None, where an integer is expected
None == 0 - 1
Handles == {0}
NoCalls == [p \in Counted |-> 0]
NoT == [prim |-> "none", sock |-> NoSock, n |-> 0, data |-> <<>>, res |-> 0]

\* one invocation of transport primitive p on handle h
TCall(p, h, n, data, res) == [prim |-> p, sock |-> h, n |-> n, data |-> data, res |-> res]
Count(tc, p) == [tc EXCEPT ![p] = @ + 1]


\* ------------------------------------------------------------ inputs
Families == {AF_INET, 10}
Types == {SOCK_STREAM, 2}
Hosts == {1, 2}
IPs == {1, 2}
IntPorts == {80, 443}
\* a port is <<isint, value>>: <<1, 80>> is the integer 80, <<0, 80>> the string "80"
Ports == {<<1, p>> : p \in IntPorts} \cup {<<0, 80>>}
SockTypes == {0, SOCK_STREAM}
\* conntype: None, TCP_MODE or TLS_MODE (2)
ConnTypes == {None, TCP_MODE, 2}
Timeouts == 0..MaxTimeout
Sizes == 0..MaxSize
WriteData == {<<>>} \cup Chunks(MaxWrite)
\* counts socket_available may report: nothing, a few bytes, or more than one packet
AvailReports == {0, 1, MAX_PACKET + 1}

\* ------------------------------------------------------------ code expressions
\* mutant: the type is not validated
TypeOk_Any(type) == TRUE

\* socket.__init__: the family and the type it accepts
FamilyOk(family) == family = AF_INET
TypeOk(type) == type = SOCK_STREAM

\* mutant: the port argument is dropped from the address
AddrInfo_NoPort(ipaddr, port, socktype, proto) ==
  <<<<AF_INET, socktype, proto, "", <<ipaddr, 0>>>>>>

\* the list getaddrinfo returns
AddrInfo(ipaddr, port, socktype, proto) ==
  <<<<AF_INET, socktype, proto, "", <<ipaddr, port>>>>>>

\* mutant: the buffer is cleared before the connection is attempted
ConnectBuffer_AlwaysClear(ok, buf) == <<>>

\* self._buffer after connect, given what socket_connect returned
ConnectBuffer(ok, buf) == IF ok THEN <<>> ELSE buf

\* mutant: the count reported by socket_available is not capped
Capped_NoCap(available) == available

\* min(_the_interface.socket_available(...), MAX_PACKET)
Capped(available) == Min(available, MAX_PACKET)

\* mutant: the timeout fires one time unit late
TimedOut_OffByOne(t, el) == t > 0 /\ el > t + 1

\* mutant: timeout 0 is not treated as blocking
TimedOut_NoZeroGuard(t, el) == el > t

\* readline: self._timeout > 0 and time.monotonic() - stamp > self._timeout
TimedOut(t, el) == t > 0 /\ el > t

\* mutant: read_timeout = 1
Stalled_OneUnit(t, el) == el > 1

\* mutant: read_timeout = 0, the stall test is off
Stalled_Never(t, el) == FALSE

\* mutant: read_timeout = self._timeout
Stalled_UserTimeout(t, el) == t > 0 /\ el > t

\* read(size), in a socket whose self._timeout is t: read_timeout > 0 and
\* time.monotonic() - stamp > read_timeout, with read_timeout = 8
Stalled(t, el) == READ_TIMEOUT > 0 /\ el > READ_TIMEOUT

\* mutant: everything available is requested, whatever is still missing
Request_All(tr, av) == av

\* read(size): the size asked of socket_read
Request(tr, av) == Min(tr, av)

\* mutant: the buffer is not cleared after the drain
DrainResult_KeepBuffer(buf) == <<buf, buf>>

\* read(0): <<ret, self._buffer>> once the drain loop has ended
DrainResult(buf) == <<buf, <<>>>>

\* mutant: the bytes beyond size are dropped
ReadResult_DropRest(buf, size) == <<Take(buf, size), <<>>>>

\* mutant: a short read returns nothing and keeps the bytes buffered
ReadResult_ShortKeeps(buf, size) ==
  IF Len(buf) < size THEN <<<<>>, buf>> ELSE <<Take(buf, size), Drop(buf, size)>>

\* mutant: the result is cut one byte after size
ReadResult_OffByOne(buf, size) == <<Take(buf, size + 1), Drop(buf, size + 1)>>

\* read(size): <<ret, self._buffer>> once the polling loop has ended
ReadResult(buf, size) ==
  IF Len(buf) = size THEN <<buf, <<>>>> ELSE <<Take(buf, size), Drop(buf, size)>>

\* ------------------------------------------------------------ the twin call
\* the timeout of the twin socket: the next value, cyclically (if every call agrees
\* with its twin, all the calls that differ only in the timeout agree)
OtherTimeout(t) == (t + 1) % (MaxTimeout + 1)

NoTwin ==
  [timeout |-> 0, size |-> 0, pc |-> "none", buffer |-> <<>>, elapsed |-> 0, avail |-> 0,
   to_read |-> 0, received |-> <<>>, ret |-> <<>>, lastT |-> NoT]

\* read(size) begins in the twin: same buffer, same handle, another timeout
TwinBegin(size) ==
  [timeout |-> OtherTimeout(timeout), size |-> size,
   pc |-> IF size = 0 THEN "rd0_avail" ELSE "rd_while",
   buffer |-> buffer, elapsed |-> 0, avail |-> 0,
   to_read |-> IF size = 0 THEN 0 ELSE size - Len(buffer),
   received |-> <<>>, ret |-> <<>>, lastT |-> NoT]

\* the twin returns rr[1] and keeps rr[2]
TwinReturn(s, rr) ==
  [s EXCEPT !.pc = "idle", !.ret = rr[1], !.buffer = rr[2], !.elapsed = 0, !.avail = 0,
            !.to_read = 0, !.received = <<>>]

\* the statement of read() at which the twin stands, executed with what the transport
\* answers: a to a poll, chunk to a socket_read
TwinStep(s, a, chunk) ==
  CASE s.pc = "rd0_avail" ->
         LET p == [s EXCEPT !.lastT = TCall("socket_available", socknum, 0, <<>>, a)] IN
         IF Capped(a) # 0
           THEN [p EXCEPT !.avail = Capped(a), !.pc = "rd0_read"]
           ELSE TwinReturn(p, DrainResult(s.buffer))
    [] s.pc = "rd0_read" ->
         [s EXCEPT !.buffer = @ \o chunk, !.pc = "rd0_avail",
                   !.lastT = TCall("socket_read", socknum, s.avail, <<>>, 0)]
    [] s.pc = "rd_while" ->
         IF s.to_read > 0
           THEN [s EXCEPT !.pc = "rd_avail"]
           ELSE TwinReturn(s, ReadResult(s.buffer \o Join(s.received), s.size))
    [] s.pc = "rd_avail" ->
         [s EXCEPT !.lastT = TCall("socket_available", socknum, 0, <<>>, a),
                   !.avail = Capped(a),
                   !.elapsed = IF Capped(a) # 0 THEN 0 ELSE @,
                   !.pc = IF Capped(a) # 0 THEN "rd_read" ELSE "rd_check"]
    [] s.pc = "rd_read" ->
         [s EXCEPT !.lastT = TCall("socket_read", socknum, Request(s.to_read, s.avail), <<>>, 0),
                   !.received = Append(@, chunk),
                   !.to_read = @ - Len(chunk),
                   !.pc = "rd_check"]
    [] s.pc = "rd_check" ->
         IF Stalled(s.timeout, s.elapsed)
           THEN TwinReturn(s, ReadResult(s.buffer \o Join(s.received), s.size))
           ELSE [s EXCEPT !.pc = "rd_while"]
    [] OTHER -> s

\* time passes for the twin too
TwinTick(s) ==
  IF s.pc \in {"none", "idle"} THEN s ELSE [s EXCEPT !.elapsed = Min(@ + 1, MaxElapsed)]

\* ------------------------------------------------------------ initial state
Init ==
  /\ pc = "none"
  /\ buffer = <<>>
  /\ socknum = NoSock
  /\ timeout = 0
  /\ elapsed = 0
  /\ avail = 0
  /\ to_read = 0
  /\ received = <<>>
  /\ op = "none"
  /\ args = <<>>
  /\ result = "return"
  /\ err = ""
  /\ ret = <<>>
  /\ gai = <<>>
  /\ entryBuf = <<>>
  /\ got = <<>>
  /\ requested = 0
  /\ recvAt = 0
  /\ lateZero = FALSE
  /\ twin = NoTwin
  /\ tcalls = NoCalls
  /\ lastT = NoT
  /\ closeCalls = 0
  /\ unread = <<>>
  /\ intact = TRUE

\* a call begins: the record of the previous call is dropped
Begin(name, a) ==
  /\ op' = name
  /\ args' = a
  /\ entryBuf' = buffer
  /\ got' = <<>>
  /\ requested' = 0
  /\ recvAt' = 0
  /\ lateZero' = FALSE
  /\ twin' = IF name = "read" THEN TwinBegin(a[1]) ELSE NoTwin

\* r is returned to the caller: it must be the oldest unread bytes
IsPrefix(r, s) == Len(r) <= Len(s) /\ SubSeq(s, 1, Len(r)) = r
Deliver(r) ==
  IF IsPrefix(r, unread)
    THEN unread' = Drop(unread, Len(r)) /\ UNCHANGED intact
    ELSE intact' = FALSE /\ UNCHANGED unread

\* how the call stands: pending, returned r (g for getaddrinfo), or raised e
Outcome(res, e, r, g) ==
  /\ result' = res
  /\ err' = e
  /\ ret' = r
  /\ gai' = g

\* the caller may start a socket operation
Callable == pc = "idle" /\ closeCalls < MaxCloseCalls

\* ------------------------------------------------------------ getaddrinfo
GetAddrInfo ==
  /\ pc \in {"none", "idle"}
  /\ \E host \in Hosts, port \in Ports, socktype \in SockTypes :
       /\ Begin("getaddrinfo", <<host, port[1], port[2], socktype>>)
       /\ IF port[1] # 1
            THEN /\ Outcome("raise", "Port must be an integer", <<>>, <<>>)
                 /\ tcalls' = NoCalls
                 /\ lastT' = NoT
            ELSE \E ipaddr \in IPs :
                 /\ tcalls' = Count(NoCalls, "get_host_by_name")
                 /\ lastT' = TCall("get_host_by_name", NoSock, 0, <<host>>, ipaddr)
                 /\ Outcome("return", "", <<>>, AddrInfo(ipaddr, port[2], socktype, 0))
  /\ UNCHANGED <<pc, sockv, elapsed, locals, closeCalls, hist>>

\* ------------------------------------------------------------ socket.__init__
Construct ==
  /\ pc = "none"
  /\ \E family \in Families, type \in Types :
       /\ Begin("init", <<family, type>>)
       /\ IF ~FamilyOk(family)
            THEN /\ Outcome("raise", "Only AF_INET family supported", <<>>, <<>>)
                 /\ tcalls' = NoCalls
                 /\ lastT' = NoT
                 /\ UNCHANGED <<pc, sockv>>
            ELSE IF ~TypeOk(type)
            THEN /\ Outcome("raise", "Only SOCK_STREAM type supported", <<>>, <<>>)
                 /\ tcalls' = NoCalls
                 /\ lastT' = NoT
                 /\ UNCHANGED <<pc, sockv>>
            ELSE \E h \in Handles \cup {NoSock} :
                 /\ tcalls' = Count(NoCalls, "get_socket")
                 /\ lastT' = TCall("get_socket", NoSock, 0, <<>>, h)
                 /\ IF h = NoSock
                      THEN \* get_socket raises: no socket is free
                           /\ Outcome("raise", "Out of sockets", <<>>, <<>>)
                           /\ UNCHANGED <<pc, sockv>>
                      ELSE /\ Outcome("return", "", <<>>, <<>>)
                           /\ buffer' = <<>>
                           /\ socknum' = h
                           /\ timeout' = 0
                           /\ pc' = "idle"
  /\ UNCHANGED <<elapsed, locals, closeCalls, hist>>

\* ------------------------------------------------------------ socket.connect
\* mutant: a failed connect releases the handle
Connect_CloseOnFail ==
  /\ Callable
  /\ \E host \in Hosts, port \in IntPorts, conntype \in ConnTypes, ok \in BOOLEAN :
       LET mode == IF conntype = None THEN TCP_MODE ELSE conntype IN
       /\ Begin("connect", <<host, port, conntype>>)
       /\ lastT' = TCall("socket_connect", socknum, mode, <<host, port>>, IF ok THEN 1 ELSE 0)
       /\ buffer' = ConnectBuffer(ok, buffer)
       /\ IF ok
            THEN /\ Outcome("return", "", <<>>, <<>>)
                 /\ tcalls' = Count(NoCalls, "socket_connect")
                 /\ unread' = <<>>
                 /\ UNCHANGED <<intact, closeCalls>>
            ELSE /\ Outcome("raise", "Failed to connect to host", <<>>, <<>>)
                 /\ tcalls' = Count(Count(NoCalls, "socket_connect"), "socket_close")
                 /\ closeCalls' = closeCalls + 1
                 /\ UNCHANGED hist
  /\ UNCHANGED <<pc, socknum, timeout, elapsed, locals>>

Connect ==
  /\ Callable
  /\ \E host \in Hosts, port \in IntPorts, conntype \in ConnTypes, ok \in BOOLEAN :
       LET mode == IF conntype = None THEN TCP_MODE ELSE conntype IN
       /\ Begin("connect", <<host, port, conntype>>)
       /\ tcalls' = Count(NoCalls, "socket_connect")
       /\ lastT' = TCall("socket_connect", socknum, mode, <<host, port>>, IF ok THEN 1 ELSE 0)
       /\ buffer' = ConnectBuffer(ok, buffer)
       /\ IF ok
            THEN /\ Outcome("return", "", <<>>, <<>>)
                 /\ unread' = <<>>
                 /\ UNCHANGED intact
            ELSE /\ Outcome("raise", "Failed to connect to host", <<>>, <<>>)
                 /\ UNCHANGED hist
  /\ UNCHANGED <<pc, socknum, timeout, elapsed, locals, closeCalls>>

\* ------------------------------------------------------------ socket.write
Write ==
  /\ Callable
  /\ \E data \in WriteData :
       /\ Begin("write", data)
       /\ tcalls' = Count(NoCalls, "socket_write")
       /\ lastT' = TCall("socket_write", socknum, 0, data, 0)
       /\ Outcome("return", "", <<>>, <<>>)
  /\ UNCHANGED <<pc, sockv, elapsed, locals, closeCalls, hist>>

\* ------------------------------------------------------------ socket.settimeout
SetTimeout ==
  /\ Callable
  /\ \E value \in Timeouts :
       /\ Begin("settimeout", <<value>>)
       /\ timeout' = value
       /\ tcalls' = NoCalls
       /\ lastT' = NoT
       /\ Outcome("return", "", <<>>, <<>>)
  /\ UNCHANGED <<pc, buffer, socknum, elapsed, locals, closeCalls, hist>>

\* ------------------------------------------------------------ socket.close
\* _the_interface.socket_close(self._socknum), also called by a timed-out readline
DoClose(tc) ==
  /\ tcalls' = Count(tc, "socket_close")
  /\ lastT' = TCall("socket_close", socknum, 0, <<>>, 0)
  /\ closeCalls' = closeCalls + 1

\* mutant: close also drops the buffered bytes
Close_ClearsBuffer ==
  /\ Callable
  /\ Begin("close", <<>>)
  /\ DoClose(NoCalls)
  /\ Outcome("return", "", <<>>, <<>>)
  /\ buffer' = <<>>
  /\ UNCHANGED <<pc, socknum, timeout, elapsed, locals, hist>>

Close ==
  /\ Callable
  /\ Begin("close", <<>>)
  /\ DoClose(NoCalls)
  /\ Outcome("return", "", <<>>, <<>>)
  /\ UNCHANGED <<pc, sockv, elapsed, locals, hist>>

\* ------------------------------------------------------------ the clock
\* time passes while a call is in progress
Tick ==
  /\ pc \notin {"none", "idle"}
  /\ elapsed < MaxElapsed
  /\ elapsed' = elapsed + 1
  /\ twin' = TwinTick(twin)
  /\ UNCHANGED <<pc, sockv, locals, op, args, result, err, ret, gai, entryBuf, got,
                 requested, recvAt, lateZero, tcalls, lastT, closeCalls, hist>>

\* the call is over: its locals are dead
Leave ==
  /\ pc' = "idle"
  /\ elapsed' = 0
  /\ avail' = 0
  /\ to_read' = 0
  /\ received' = <<>>


\* ------------------------------------------------------------ the transport
\* socket_available(self._socknum) reports a: the transport delivers nothing more
\* while MaxUnread bytes wait to be consumed
Poll(a) ==
  /\ a \in AvailReports
  /\ a > 0 => Len(unread) < MaxUnread
  /\ lastT' = TCall("socket_available", socknum, 0, <<>>, a)
  /\ lateZero' = (op = "readline" /\ a = 0 /\ timeout > 0 /\ elapsed > timeout)
  /\ twin' = TwinStep(twin, a, <<>>)

\* the byte strings socket_read(self._socknum, n) may return
ReadReturns(n) == Chunks(Min(Min(n, MaxChunk), MaxUnread - Len(unread)))

\* socket_read(self._socknum, n) returns chunk
Recv(n, chunk) ==
  /\ chunk \in ReadReturns(n)
  /\ lastT' = TCall("socket_read", socknum, n, <<>>, 0)
  /\ requested' = IF pc = "rd_read" THEN requested + n ELSE requested
  /\ recvAt' = IF pc = "rd_read" THEN Min(elapsed, 1) ELSE 0
  /\ twin' = TwinStep(twin, 0, chunk)
  /\ UNCHANGED tcalls
  /\ got' = got \o chunk
  /\ unread' = unread \o chunk
  /\ UNCHANGED intact

\* ------------------------------------------------------------ socket.readline
StartReadline ==
  /\ Callable
  /\ Begin("readline", <<>>)
  /\ tcalls' = NoCalls
  /\ Outcome("pending", "", <<>>, <<>>)
  /\ lastT' = NoT
  /\ elapsed' = 0
  /\ pc' = "rl_while"
  /\ UNCHANGED <<sockv, locals, closeCalls, hist>>

\* while b'\r\n' not in self._buffer; after the loop, split and return
RlWhile ==
  /\ pc = "rl_while"
  /\ IF ~HasCRLF(buffer)
       THEN /\ pc' = "rl_avail"
            /\ UNCHANGED <<buffer, elapsed, locals, result, err, ret, gai, hist>>
       ELSE /\ buffer' = SplitCRLF(buffer)[2]
            /\ Outcome("return", "", SplitCRLF(buffer)[1], <<>>)
            /\ Deliver(SplitCRLF(buffer)[1] \o CRLF)
            /\ Leave
  /\ UNCHANGED <<socknum, timeout, op, args, entryBuf, got, requested, recvAt, lateZero,
                 twin, tcalls, lastT, closeCalls>>

\* avail = min(socket_available(...), MAX_PACKET)
RlAvail ==
  /\ pc = "rl_avail"
  /\ \E a \in AvailReports :
       /\ Poll(a)
       /\ avail' = Capped(a)
       /\ pc' = IF Capped(a) # 0 THEN "rl_read" ELSE "rl_timeout"
  /\ UNCHANGED <<sockv, elapsed, to_read, received, op, args, result, err, ret, gai,
                 entryBuf, got, requested, recvAt, tcalls, closeCalls, hist>>

\* self._buffer += socket_read(self._socknum, avail)
RlRead ==
  /\ pc = "rl_read"
  /\ \E chunk \in ReadReturns(avail) :
       /\ Recv(avail, chunk)
       /\ buffer' = buffer \o chunk
  /\ pc' = "rl_while"
  /\ UNCHANGED <<socknum, timeout, elapsed, locals, op, args, result, err, ret, gai,
                 entryBuf, lateZero, closeCalls>>

\* mutant: the timed-out readline drops the bytes it holds
RlTimeout_ClearsBuffer ==
  /\ pc = "rl_timeout"
  /\ IF TimedOut(timeout, elapsed)
       THEN /\ DoClose(tcalls)
            /\ Outcome("raise", "Didn't receive full response, failing out", <<>>, <<>>)
            /\ buffer' = <<>>
            /\ Leave
       ELSE /\ pc' = "rl_while"
            /\ UNCHANGED <<buffer, elapsed, locals, result, err, ret, gai, tcalls, lastT,
                           closeCalls>>
  /\ UNCHANGED <<socknum, timeout, op, args, entryBuf, got, requested, recvAt, lateZero,
                 twin, hist>>

\* elif self._timeout > 0 and time.monotonic() - stamp > self._timeout: close, raise
RlTimeout ==
  /\ pc = "rl_timeout"
  /\ IF TimedOut(timeout, elapsed)
       THEN /\ DoClose(tcalls)
            /\ Outcome("raise", "Didn't receive full response, failing out", <<>>, <<>>)
            /\ Leave
       ELSE /\ pc' = "rl_while"
            /\ UNCHANGED <<elapsed, locals, result, err, ret, gai, tcalls, lastT, closeCalls>>
  /\ UNCHANGED <<sockv, op, args, entryBuf, got, requested, recvAt, lateZero, twin, hist>>

\* ------------------------------------------------------------ socket.read
StartRead ==
  /\ Callable
  /\ \E size \in Sizes :
       /\ Begin("read", <<size>>)
       /\ IF size = 0
            THEN /\ pc' = "rd0_avail"
                 /\ to_read' = 0
            ELSE /\ pc' = "rd_while"
                 /\ to_read' = size - Len(buffer)
  /\ elapsed' = 0
  /\ received' = <<>>
  /\ tcalls' = NoCalls
  /\ lastT' = NoT
  /\ Outcome("pending", "", <<>>, <<>>)
  /\ UNCHANGED <<sockv, avail, closeCalls, hist>>

\* size == 0: poll; on zero leave the loop, return the buffer and clear it
Rd0Avail ==
  /\ pc = "rd0_avail"
  /\ \E a \in AvailReports :
       /\ Poll(a)
       /\ IF Capped(a) # 0
            THEN /\ avail' = Capped(a)
                 /\ pc' = "rd0_read"
                 /\ UNCHANGED <<buffer, elapsed, to_read, received, result, err, ret, gai, hist>>
            ELSE /\ buffer' = DrainResult(buffer)[2]
                 /\ Outcome("return", "", DrainResult(buffer)[1], <<>>)
                 /\ Deliver(DrainResult(buffer)[1])
                 /\ Leave
  /\ UNCHANGED <<socknum, timeout, op, args, entryBuf, got, requested, recvAt, tcalls,
                 closeCalls>>

\* size == 0: self._buffer += socket_read(self._socknum, avail)
Rd0Read ==
  /\ pc = "rd0_read"
  /\ \E chunk \in ReadReturns(avail) :
       /\ Recv(avail, chunk)
       /\ buffer' = buffer \o chunk
  /\ pc' = "rd0_avail"
  /\ UNCHANGED <<socknum, timeout, elapsed, locals, op, args, result, err, ret, gai,
                 entryBuf, lateZero, closeCalls>>

\* size > 0, after the loop: self._buffer += b''.join(received), then cut ret off it
ReadFinish ==
  LET rr == ReadResult(buffer \o Join(received), args[1]) IN
  /\ buffer' = rr[2]
  /\ Outcome("return", "", rr[1], <<>>)
  /\ Deliver(rr[1])
  /\ recvAt' = 0
  /\ Leave

\* while to_read > 0
RdWhile ==
  /\ pc = "rd_while"
  /\ IF to_read > 0
       THEN /\ pc' = "rd_avail"
            /\ UNCHANGED <<buffer, elapsed, locals, result, err, ret, gai, recvAt, hist>>
       ELSE ReadFinish
  /\ twin' = TwinStep(twin, 0, <<>>)
  /\ UNCHANGED <<socknum, timeout, op, args, entryBuf, got, requested, lateZero,
                 tcalls, lastT, closeCalls>>

\* available_bytes = socket_available(...); avail = min(available_bytes, MAX_PACKET);
\* if avail: stamp = time.monotonic()
RdAvail ==
  /\ pc = "rd_avail"
  /\ \E a \in AvailReports :
       /\ Poll(a)
       /\ avail' = Capped(a)
       /\ IF Capped(a) # 0
            THEN /\ elapsed' = 0
                 /\ pc' = "rd_read"
            ELSE /\ pc' = "rd_check"
                 /\ UNCHANGED elapsed
  /\ UNCHANGED <<sockv, to_read, received, op, args, result, err, ret, gai, entryBuf,
                 got, requested, recvAt, tcalls, closeCalls, hist>>

\* recv = socket_read(self._socknum, min(to_read, avail)); received.append(recv);
\* to_read -= len(recv)
RdRead ==
  /\ pc = "rd_read"
  /\ \E chunk \in ReadReturns(Request(to_read, avail)) :
       /\ Recv(Request(to_read, avail), chunk)
       /\ received' = Append(received, chunk)
       /\ to_read' = to_read - Len(chunk)
  /\ pc' = "rd_check"
  /\ UNCHANGED <<sockv, elapsed, avail, op, args, result, err, ret, gai, entryBuf,
                 lateZero, closeCalls>>

\* if read_timeout > 0 and time.monotonic() - stamp > read_timeout: break
RdCheck ==
  /\ pc = "rd_check"
  /\ IF Stalled(timeout, elapsed)
       THEN ReadFinish
       ELSE /\ pc' = "rd_while"
            /\ UNCHANGED <<buffer, elapsed, locals, result, err, ret, gai, recvAt, hist>>
  /\ twin' = TwinStep(twin, 0, <<>>)
  /\ UNCHANGED <<socknum, timeout, op, args, entryBuf, got, requested, lateZero,
                 tcalls, lastT, closeCalls>>

\* ------------------------------------------------------------ specification
Next ==
  \/ GetAddrInfo
  \/ Construct
  \/ Connect
  \/ Write
  \/ SetTimeout
  \/ Close
  \/ StartReadline
  \/ RlWhile
  \/ RlAvail
  \/ RlRead
  \/ RlTimeout
  \/ StartRead
  \/ Rd0Avail
  \/ Rd0Read
  \/ RdWhile
  \/ RdAvail
  \/ RdRead
  \/ RdCheck
  \/ Tick

Spec == Init /\ [][Next]_vars

\* ------------------------------------------------------------ fair specification
\* readline, line 100, when socket_read returns b'' although the poll reported bytes:
\* self._buffer += b'' leaves the buffer as it is
RlReadEmpty ==
  /\ pc = "rl_read"
  /\ lastT' = TCall("socket_read", socknum, avail, <<>>, 0)
  /\ pc' = "rl_while"
  /\ UNCHANGED <<sockv, elapsed, locals, op, args, result, err, ret, gai, entryBuf, got,
                 requested, recvAt, lateZero, twin, tcalls, closeCalls, hist>>

\* any transport: Next lets socket_read return at least one byte, here readline may
\* also be handed none
NextAnyTransport ==
  \/ Next
  \/ RlReadEmpty

\* the statement at which a call in progress stands
CallStep ==
  \/ RlWhile
  \/ RlAvail
  \/ RlRead
  \/ RlReadEmpty
  \/ RlTimeout
  \/ Rd0Avail
  \/ Rd0Read
  \/ RdWhile
  \/ RdAvail
  \/ RdRead
  \/ RdCheck

\* a call in progress keeps executing (the caller's single thread runs its loop) and
\* the clock keeps advancing (up to the bound of the model); nothing obliges the
\* caller to start a call or the transport to deliver
FairSpec == Init /\ [][NextAnyTransport]_vars /\ WF_vars(CallStep) /\ WF_vars(Tick)

TypeInvariant ==
  /\ pc \in {"none", "idle", "rl_while", "rl_avail", "rl_read", "rl_timeout",
             "rd0_avail", "rd0_read", "rd_while", "rd_avail", "rd_read", "rd_check"}
  /\ Len(unread) <= MaxUnread
  /\ elapsed \in 0..MaxElapsed
  /\ recvAt \in 0..1
  /\ twin.pc \in {"none", "idle", "rd0_avail", "rd0_read", "rd_while", "rd_avail", "rd_read",
                 "rd_check"}
  /\ closeCalls \in 0..MaxCloseCalls
  /\ result \in {"pending", "return", "raise"}
  /\ (result = "pending") = (pc \notin {"none", "idle"})


\* ------------------------------------------------------------ properties
Max0(n) == IF n > 0 THEN n ELSE 0
Last(s) == s[Len(s)]
Returned(name) == op = name /\ pc = "idle" /\ result = "return"

\* C1: FIFO stream integrity. Every read(0), read(size) and readline so far returned
\* exactly the oldest bytes received and not yet returned (a line with its CRLF),
\* and the bytes received and not yet returned are exactly the receive buffer
\* (followed, inside read(size), by the chunks not yet joined to it): nothing is
\* lost, duplicated or reordered since construction or the last successful connect.
C1_FifoIntegrity == intact /\ unread = buffer \o Join(received)

\* a readline that received bytes returned a line and left bytes in the buffer
C1_Witness ==
  /\ Returned("readline")
  /\ got # <<>>
  /\ buffer # <<>>
  /\ Len(entryBuf \o got) = Len(ret) + 2 + Len(buffer)

C3_TimeoutTeardown ==
  (op = "readline" /\ lateZero) =>
    \/ pc = "rl_timeout"
    \/ /\ pc = "idle"
       /\ result = "raise"
       /\ err = "Didn't receive full response, failing out"
       /\ ret = <<>>
       /\ tcalls["socket_close"] = 1
       /\ lastT = TCall("socket_close", socknum, 0, <<>>, 0)

\* a readline was torn down after a late zero poll
C3_Witness ==
  /\ op = "readline"
  /\ lateZero
  /\ pc = "idle"
  /\ result = "raise"
  /\ closeCalls = 1

\* C4: with user timeout 0 a readline never times out: it never invokes socket_close,
\* never raises, and is over only by returning once the bytes it holds contain CRLF.
C4_ZeroTimeoutBlocks ==
  (op = "readline" /\ timeout = 0) =>
    /\ result # "raise"
    /\ tcalls["socket_close"] = 0
    /\ pc = "idle" => (result = "return" /\ HasCRLF(entryBuf \o got))

\* a readline with timeout 0 polled zero after a long time and went on looping
C4_Witness ==
  /\ op = "readline"
  /\ timeout = 0
  /\ pc = "rl_while"
  /\ elapsed > READ_TIMEOUT
  /\ lastT = TCall("socket_available", socknum, 0, <<>>, 0)

\* C5: silent short read. A read(size > 0) that began with fewer than size bytes and
\* ended with fewer than size bytes in all returns every one of them (entry buffer
\* ++ the bytes received), raises nothing, does not invoke socket_close and leaves
\* the buffer empty.
C5_ShortRead ==
  (op = "read" /\ pc = "idle" /\ args[1] > 0 /\ Len(entryBuf \o got) < args[1]) =>
    /\ result = "return"
    /\ ret = entryBuf \o got
    /\ buffer = <<>>
    /\ tcalls["socket_close"] = 0

\* read(3) began with one byte, received one more and returned the two
C5_Witness ==
  /\ Returned("read")
  /\ args[1] = 3
  /\ Len(entryBuf) = 1
  /\ Len(got) = 1
  /\ Len(ret) = 2

\* C6 as claimed: the total number of bytes read(size > 0) requests from socket_read
\* in one call is at most max(0, size - len(entry buffer)).
C6_NeverOverPulls ==
  (op = "read" /\ args[1] > 0) => requested <= Max0(args[1] - Len(entryBuf))

\* C6 amended: each single request asks for at least one byte and at most the
\* bytes still missing (size - len(entry buffer) - bytes received so far), so the
\* bytes received in one call number at most max(0, size - len(entry buffer));
\* with at least size bytes buffered at entry no socket_read is issued, and with
\* exactly size bytes the call returns them and empties the buffer.
C6_NeverOverReceives ==
  (op = "read" /\ args[1] > 0) =>
    /\ Len(got) <= Max0(args[1] - Len(entryBuf))
    /\ pc = "rd_read" =>
         /\ Request(to_read, avail) >= 1
         /\ Request(to_read, avail) <= args[1] - Len(entryBuf) - Len(got)
    /\ Len(entryBuf) >= args[1] =>
         (requested = 0 /\ got = <<>> /\ lastT.prim # "socket_read")
    /\ (pc = "idle" /\ Len(entryBuf) = args[1]) => (ret = entryBuf /\ buffer = <<>>)

\* a socket_read returned fewer bytes than asked and the missing ones were asked again
C6_Witness ==
  /\ Returned("read")
  /\ args[1] > 0
  /\ requested > args[1] - Len(entryBuf)
  /\ Len(ret) = args[1]

\* C7: read(0) drain. While the call polls, the buffer is the entry buffer ++ every
\* byte read so far and no poll has reported zero; the first zero poll ends the
\* call, which returns entry buffer ++ all bytes read and leaves the buffer empty.
C7_DrainRead ==
  (op = "read" /\ args[1] = 0) =>
    /\ pc \in {"rd0_avail", "rd0_read", "idle"}
    /\ pc # "idle" =>
         /\ buffer = entryBuf \o got
         /\ ~(lastT.prim = "socket_available" /\ lastT.res = 0)
    /\ pc = "idle" =>
         /\ result = "return"
         /\ ret = entryBuf \o got
         /\ buffer = <<>>
         /\ lastT = TCall("socket_available", socknum, 0, <<>>, 0)

\* read(0) began with bytes buffered, read two more and returned them all
C7_Witness ==
  /\ Returned("read")
  /\ args[1] = 0
  /\ entryBuf # <<>>
  /\ Len(got) = 2
  /\ Len(ret) = 3

\* C8: connect and the receive buffer. A connect whose socket_connect reports failure
\* raises and leaves the buffer as it was; one whose socket_connect reports success
\* leaves the buffer empty.
C8_ConnectBuffer ==
  (op = "connect") =>
    /\ lastT.prim = "socket_connect"
    /\ lastT.res = 0 =>
         /\ result = "raise"
         /\ err = "Failed to connect to host"
         /\ buffer = entryBuf
    /\ lastT.res = 1 => (result = "return" /\ buffer = <<>>)

\* a connect failed while bytes were buffered
C8_Witness ==
  /\ op = "connect"
  /\ result = "raise"
  /\ entryBuf # <<>>

\* C9: construction. With family AF_INET and type SOCK_STREAM the constructor invokes
\* get_socket exactly once; with any other family or type it raises and invokes
\* get_socket zero times, and no socket exists.
C9_ConstructAcquires ==
  (op = "init") =>
    IF args = <<AF_INET, SOCK_STREAM>>
      THEN tcalls["get_socket"] = 1 /\ lastT.prim = "get_socket"
      ELSE /\ result = "raise"
           /\ tcalls["get_socket"] = 0
           /\ lastT = NoT
           /\ pc = "none"
           /\ socknum = NoSock

\* a construction with the supported family and an unsupported type was refused
C9_Witness ==
  /\ op = "init"
  /\ args[1] = AF_INET
  /\ args[2] # SOCK_STREAM
  /\ result = "raise"

\* C10: address resolver. For an integer port p, getaddrinfo(host, p) returns a list
\* of exactly one tuple whose address element is (ip, p), ip being what
\* get_host_by_name(host) returned; for a non-integer port it raises without
\* invoking get_host_by_name.
C10_Resolver ==
  (op = "getaddrinfo") =>
    IF args[2] = 1
      THEN /\ result = "return"
           /\ tcalls["get_host_by_name"] = 1
           /\ lastT.prim = "get_host_by_name"
           /\ lastT.data = <<args[1]>>
           /\ Len(gai) = 1
           /\ gai[1][5] = <<lastT.res, args[3]>>
      ELSE /\ result = "raise"
           /\ err = "Port must be an integer"
           /\ gai = <<>>
           /\ tcalls["get_host_by_name"] = 0
           /\ lastT = NoT

\* getaddrinfo resolved a host with the integer port 443
C10_Witness ==
  /\ op = "getaddrinfo"
  /\ args[2] = 1
  /\ args[3] = 443
  /\ result = "return"

\* C12: read(size > 0) result shape. With S = entry buffer ++ the bytes received
\* during the call, a read(size > 0) that returns gives back the first
\* min(size, len(S)) bytes of S and leaves the remaining bytes of S in the buffer.
C12_ReadShape ==
  (Returned("read") /\ args[1] > 0) =>
    LET S == entryBuf \o got IN
      /\ ret \o buffer = S
      /\ Len(ret) = Min(args[1], Len(S))

\* read(1) began with three bytes buffered: it returned one and kept two
C12_Witness ==
  /\ Returned("read")
  /\ args[1] = 1
  /\ Len(entryBuf) = 3
  /\ Len(ret) = 1
  /\ Len(buffer) = 2

\* C13: transport read requests respect the contract. Every step of readline,
\* read(0) or read(size) in which socket_read delivers a chunk comes directly after
\* a socket_available poll of the same handle that reported a > 0 bytes, and its
\* request n satisfies 1 <= n <= min(a, MAX_PACKET) and, in read(size), n <= the
\* bytes still missing; socket_read is never called after a poll that reported zero.
C13_ReadContract ==
  [][Len(got') > Len(got) =>
       /\ lastT.prim = "socket_available"
       /\ lastT.sock = socknum
       /\ lastT.res > 0
       /\ lastT'.prim = "socket_read"
       /\ lastT'.sock = socknum
       /\ lastT'.n >= 1
       /\ lastT'.n <= Min(lastT.res, MAX_PACKET)
       /\ (op = "read" /\ args[1] > 0) =>
            lastT'.n <= args[1] - Len(entryBuf) - Len(got)]_vars

\* read(3) was told more than one packet is available and asked for two bytes
C13_Witness ==
  /\ op = "read"
  /\ args[1] = 3
  /\ pc = "rd_check"
  /\ lastT.prim = "socket_read"
  /\ lastT.n = 2
  /\ avail = MAX_PACKET

\* C17: Closed is terminal. Once the socket has released its handle (by close() or
\* by a timed-out readline), every later operation on it is rejected: it raises,
\* invokes no transport primitive with the released handle, and socket_close is
\* never invoked a second time for the handle.
C17_ClosedIsTerminal ==
  [][closeCalls >= 1 =>
       /\ closeCalls' = closeCalls
       /\ lastT' = lastT \/ lastT'.sock # socknum
       /\ (pc = "idle" /\ op' # "getaddrinfo") => (pc' = "idle" /\ result' = "raise")]_vars

\* C18: connect makes a single attempt and tears nothing down. Each connect invokes
\* socket_connect exactly once, on the socket's handle; when it reports failure the
\* call raises without invoking socket_close. Over all operations, the only call
\* that raises and has invoked socket_close is a timed-out readline.
C18_ConnectSingleAttempt ==
  /\ (op = "connect") =>
       /\ tcalls["socket_connect"] = 1
       /\ tcalls["socket_close"] = 0
       /\ lastT.prim = "socket_connect"
       /\ lastT.sock = socknum
       /\ lastT.res = 0 => result = "raise"
  /\ (result = "raise" /\ tcalls["socket_close"] > 0) =>
       (op = "readline" /\ err = "Didn't receive full response, failing out")

\* a TLS connect failed: one attempt was made and the handle is still held
C18_Witness ==
  /\ op = "connect"
  /\ args[3] = 2
  /\ result = "raise"
  /\ tcalls["socket_connect"] = 1
  /\ closeCalls = 0

C20_TimeoutKeepsBuffer ==
  /\ []((op = "readline" /\ pc = "idle" /\ result = "raise") =>
          /\ buffer = entryBuf \o got
          /\ unread = buffer
          /\ ~HasCRLF(buffer))
  /\ [][(op = "readline" /\ pc # "idle") => timeout' = timeout]_vars

\* a readline that began with a byte buffered and received two more timed out
C20_Witness ==
  /\ op = "readline"
  /\ pc = "idle"
  /\ result = "raise"
  /\ Len(entryBuf) = 1
  /\ Len(got) = 2
  /\ Len(buffer) = 3

\* C14 as claimed: a read(size > 0) ends with fewer than size bytes only if, when
\* its polling loop ended, more than READ_TIMEOUT time units had passed since the
\* last chunk was received in the call (since the call began, if none was). The
\* time since the last chunk was received is the time since the stamp less the time
\* the chunk took to come back: elapsed - recvAt, or less when it took more than one
\* time unit.
C14_ShortOnlyAfterChunkStall ==
  [][(op = "read" /\ args[1] > 0 /\ pc # "idle" /\ pc' = "idle" /\ Len(ret') < args[1]) =>
       elapsed - recvAt > READ_TIMEOUT]_vars

\* C14 amended: a read(size > 0) ends with fewer than size bytes only through the
\* stall test, when more than READ_TIMEOUT time units have passed since the last
\* poll of the call that reported bytes available (since the call began, if none
\* did); every such poll resets the timer before its chunk is requested.
C14_ShortOnlyAfterPollStall ==
  /\ [][(op = "read" /\ args[1] > 0 /\ pc # "idle" /\ pc' = "idle" /\ Len(ret') < args[1]) =>
          (pc = "rd_check" /\ elapsed > READ_TIMEOUT)]_vars
  /\ [][(pc = "rd_avail" /\ lastT'.res > 0) => (elapsed' = 0 /\ pc' = "rd_read")]_vars

\* read(size) holds a chunk, lacks bytes, and its last poll found nothing more than
\* READ_TIMEOUT after the poll before
C14_Witness ==
  /\ op = "read"
  /\ pc = "rd_check"
  /\ got # <<>>
  /\ to_read > 0
  /\ lastT = TCall("socket_available", socknum, 0, <<>>, 0)
  /\ elapsed > READ_TIMEOUT

\* C11: the user timeout does not influence sized or drain reads. A read(size > 0)
\* or read(0) and the same call made by a socket that differs only in the value
\* given to settimeout, on the same transport and clock, stand at the same statement
\* after every step, have issued the same transport call last, hold the same buffer
\* and received chunks, and return the same bytes.
C11_TimeoutIrrelevantToRead ==
  (op = "read") =>
    /\ twin.timeout # timeout
    /\ twin.pc = pc
    /\ twin.lastT = lastT
    /\ twin.buffer = buffer
    /\ twin.received = received
    /\ twin.ret = ret

\* with timeout 1 and with timeout 0 alike, a read(size) that lacks bytes goes on
\* polling after a stall test made later than one time unit after the last stamp
C11_Witness ==
  /\ op = "read"
  /\ args[1] > 0
  /\ timeout = 1
  /\ twin.timeout = 0
  /\ pc = "rd_while"
  /\ twin.pc = "rd_while"
  /\ to_read > 0
  /\ elapsed > 1
  /\ lastT = TCall("socket_available", socknum, 0, <<>>, 0)

\* C15: read(size > 0) always terminates. On a transport whose socket_read of
\* n >= 1 bytes returns at least one byte, and with the clock advancing, every
\* read(size > 0) in progress eventually ends.
C15_ReadTerminates ==
  (op = "read" /\ args[1] > 0 /\ pc # "idle") ~> (pc = "idle")

\* a read(3) that was never offered a byte has returned
C15_Witness ==
  /\ Returned("read")
  /\ args[1] = 3
  /\ entryBuf = <<>>
  /\ got = <<>>
  /\ ret = <<>>
  /\ lastT = TCall("socket_available", socknum, 0, <<>>, 0)

\* C16: the user timeout bounds every line read. With user timeout T > 0 and the
\* clock advancing, every readline in progress eventually ends (by returning a line
\* or by closing the socket and raising), whatever the transport does.
C16_ReadlineEnds ==
  (op = "readline" /\ timeout > 0 /\ pc # "idle") ~> (pc = "idle")

====
